---- MODULE Spec2Model ----
(***************************************************************************)
(* Batch table OCR (tencent_table_ocr_batch.py): a pool of workers runs    *)
(* process_image on every image of a directory, the main thread drains the *)
(* completions, builds one worksheet per recognised image, saves a         *)
(* checkpoint workbook every batch_size successes and a final workbook at  *)
(* the end.                                                                *)
(*                                                                         *)
(* Strings of the program that are not ASCII are written here in English;  *)
(* a formatted message (an f-string) is the sequence of its parts.         *)
(***************************************************************************)
EXTENDS Integers, Sequences, FiniteSets, TLC

VARIABLES
    image_files,     \* main: the sorted list of image paths
    max_workers,     \* args.max_workers
    batch_size,      \* args.batch_size
    env,             \* what the file system and the service may answer in this run
    task,            \* one process_image call per image: position, locals, return value
    pc,              \* main's position
    pre,             \* as_completed: the futures already finished when it was called
    queue,           \* as_completed: the futures finished since, in completion order
    drained,         \* the futures the for loop of main has consumed
    wb,              \* main: the workbook (None until the first recognised image)
    processed_count,
    success_count,
    batch_counter,
    failed_files,
    saves,           \* every wb.save call: path, workbook content, whether it raised
    fail_report,     \* the failure report file: <<>> until written, then <<lines>>
    signals          \* the log lines the claims speak of

vars == <<image_files, max_workers, batch_size, env, task, pc, pre, queue, drained,
          wb, processed_count, success_count, batch_counter, failed_files, saves,
          fail_report, signals>>

(***************************************************************************)
(* Bounds of the model.                                                    *)
(***************************************************************************)
MaxFiles == 2          \* files in the scanned directory
MaxWorkers == 2        \* largest --max_workers
MaxBatch == 2          \* largest --batch_size
MaxCells == 2          \* cells of the main table in SpecGrid
MaxCoord == 2          \* largest RowBr / ColBr of a cell

(***************************************************************************)
(* Program constants.                                                      *)
(***************************************************************************)
MAX_IMAGE_SIZE == 3 * 1024 * 1024
\* one attempt more than configured
max_retries_OneMore == 3 + 1

max_retries == 3
initial_retry_delay == 2

Min(a, b) == IF a < b THEN a ELSE b

(***************************************************************************)
(* Error codes: a dotted code is the sequence of its parts, so that        *)
(* startswith("AuthFailure") is a test of the first part.                  *)
(***************************************************************************)
\* the table with a rate-limiting code listed in it
non_retryable_errors_RateLimit ==
    ( <<"AuthFailure", "SecretIdNotFound">> :> "secret id not found"
   @@ <<"AuthFailure", "SignatureFailure">> :> "signature check failed"
   @@ <<"AuthFailure", "TokenFailure">> :> "temporary token invalid"
   @@ <<"FailedOperation", "ArrearsError">> :> "account in arrears"
   @@ <<"FailedOperation", "UnOpenError">> :> "service not opened"
   @@ <<"LimitExceeded">> :> "quota exceeded"
   @@ <<"FailedOperation", "OcrFailed", "InvalidImage">> :> "invalid image format"
   @@ <<"FailedOperation", "OcrFailed", "TooLarge">> :> "image exceeds 3MB limit"
   @@ <<"FailedOperation", "OcrFailed", "UnsupportedFormat">> :> "unsupported image format"
   @@ <<"FailedOperation", "OcrFailed", "LowQuality">> :> "image quality too low"
   @@ <<"FailedOperation", "OcrFailed", "NoText">> :> "no text detected"
   @@ <<"FailedOperation", "OcrFailed", "NoTable">> :> "no table detected"
   @@ <<"FailedOperation", "OcrFailed", "ComplexTable">> :> "table structure too complex"
   @@ <<"FailedOperation", "ImageSizeTooSmall">> :> "image dimensions too small"
   @@ <<"FailedOperation", "ImageNoText">> :> "no text in image"
   @@ <<"InvalidParameter">> :> "invalid parameter"
   @@ <<"InvalidParameterValue">> :> "invalid parameter value"
   @@ <<"MissingParameter">> :> "missing parameter"
   @@ <<"RequestLimitExceeded">> :> "request rate limit exceeded" )

non_retryable_errors ==
    ( <<"AuthFailure", "SecretIdNotFound">> :> "secret id not found"
   @@ <<"AuthFailure", "SignatureFailure">> :> "signature check failed"
   @@ <<"AuthFailure", "TokenFailure">> :> "temporary token invalid"
   @@ <<"FailedOperation", "ArrearsError">> :> "account in arrears"
   @@ <<"FailedOperation", "UnOpenError">> :> "service not opened"
   @@ <<"LimitExceeded">> :> "quota exceeded"
   @@ <<"FailedOperation", "OcrFailed", "InvalidImage">> :> "invalid image format"
   @@ <<"FailedOperation", "OcrFailed", "TooLarge">> :> "image exceeds 3MB limit"
   @@ <<"FailedOperation", "OcrFailed", "UnsupportedFormat">> :> "unsupported image format"
   @@ <<"FailedOperation", "OcrFailed", "LowQuality">> :> "image quality too low"
   @@ <<"FailedOperation", "OcrFailed", "NoText">> :> "no text detected"
   @@ <<"FailedOperation", "OcrFailed", "NoTable">> :> "no table detected"
   @@ <<"FailedOperation", "OcrFailed", "ComplexTable">> :> "table structure too complex"
   @@ <<"FailedOperation", "ImageSizeTooSmall">> :> "image dimensions too small"
   @@ <<"FailedOperation", "ImageNoText">> :> "no text in image"
   @@ <<"InvalidParameter">> :> "invalid parameter"
   @@ <<"InvalidParameterValue">> :> "invalid parameter value"
   @@ <<"MissingParameter">> :> "missing parameter" )

error_guidance ==
    ( <<"FailedOperation", "OcrFailed", "LowQuality">> :> "hint: raise resolution and contrast"
   @@ <<"FailedOperation", "OcrFailed", "ComplexTable">> :> "hint: simplify the table"
   @@ <<"FailedOperation", "OcrFailed", "NoText">> :> "hint: check the image has text"
   @@ <<"FailedOperation", "OcrFailed", "NoTable">> :> "hint: make sure the table has clear borders"
   @@ <<"FailedOperation", "ImageDecodeFailed">> :> "hint: save the image again as JPEG/PNG" )

\* error_guidance.get(error_code, default)
Suggestion(error_code) ==
    IF error_code \in DOMAIN error_guidance
    THEN error_guidance[error_code]
    ELSE "hint: check the image content and retry"

\* codes the service may report that the table does not list
UnlistedCodes ==
    { <<"AuthFailure", "SignatureExpire">>,
      <<"AuthFailure", "UnauthorizedOperation">>,
      <<"InternalError">>,
      <<"RequestLimitExceeded">>,
      <<"LimitExceeded", "TooLargeFileError">>,
      <<"FailedOperation", "ImageDecodeFailed">>,
      <<"FailedOperation", "UnKnowError">> }

AllCodes == DOMAIN non_retryable_errors \cup UnlistedCodes

\* error_code.startswith("AuthFailure")
StartsWithAuthFailure(error_code) == error_code[1] = "AuthFailure"

(***************************************************************************)
(* What the environment may answer.                                        *)
(***************************************************************************)
\* listdir order is arbitrary; notes.txt is not an image
FileUniverse == << <<"b", ".png">>, <<"a", ".png">>, <<"a", ".jpg">>, <<"b", ".jpg">> >>
\* two images of one directory whose names differ in the extension only
SameStem == {<<"a", ".jpg">>, <<"a", ".png">>}
Listings ==
    {found \cup {<<"c", ".txt">>} :
        found \in {{FileUniverse[k] : k \in 1..n} : n \in 0..Min(MaxFiles, Len(FileUniverse))}
                     \cup (IF MaxFiles >= 2 THEN {SameStem} ELSE {})}

Cell(rt, rb, ct, cb, text) == [RowTl |-> rt, RowBr |-> rb, ColTl |-> ct, ColBr |-> cb, Text |-> text]
Result(regions) == [hasTD |-> TRUE, TableDetections |-> regions]
Region(cells) == [Cells |-> cells]

GoodResult ==
    Result(<<Region(<<>>),
             Region(<<Cell(0, 2, 0, 1, <<"T">>), Cell(0, 1, 1, 2, <<"x", "\n", "y">>)>>)>>)
OneRegionResult == Result(<<Region(<<Cell(0, 1, 0, 1, <<"T">>)>>)>>)
EmptyCellsResult == Result(<<Region(<<>>), Region(<<>>)>>)

SizeAtLimit == [ok |-> TRUE, size |-> MAX_IMAGE_SIZE]
SizeOverLimit == [ok |-> TRUE, size |-> MAX_IMAGE_SIZE + 1]
SizeUnknown == [ok |-> FALSE, size |-> 0]

\* one code of each class, for the runs with several images
PipelineEnv ==
    [sizes |-> {SizeAtLimit, SizeOverLimit, SizeUnknown},
     readable |-> BOOLEAN,
     codes |-> { <<"FailedOperation", "OcrFailed", "NoTable">>,
                 <<"AuthFailure", "SignatureFailure">>,
                 <<"AuthFailure", "SignatureExpire">>,
                 <<"InternalError">> },
     results |-> {GoodResult, OneRegionResult, EmptyCellsResult},
     network |-> {TRUE},
     trace |-> FALSE]

\* every code, size and outcome, for the runs with one image
OneImage == {FileUniverse[1], <<"c", ".txt">>}
WorkerEnv ==
    [sizes |-> {[ok |-> TRUE, size |-> MAX_IMAGE_SIZE - 1], SizeAtLimit, SizeOverLimit,
                SizeUnknown},
     readable |-> BOOLEAN,
     codes |-> AllCodes,
     results |-> {GoodResult, OneRegionResult, EmptyCellsResult},
     network |-> {TRUE},
     trace |-> TRUE]

\* every main table of up to MaxCells cells within MaxCoord rows and columns;
\* the k-th cell of a table carries the k-th text
Texts == << <<"a", "\n", "b">>, <<"c">>, <<"\n", "d", "\n">>, <<"e">> >>
Spans == {<<tl, br>> \in (0..MaxCoord) \X (0..MaxCoord) : tl < br}
Geometries == Spans \X Spans
CellLists ==
    UNION {[1..n -> Geometries] : n \in 0..Min(MaxCells, Len(Texts))}
TableOf(geoms) ==
    [k \in DOMAIN geoms |->
        Cell(geoms[k][1][1], geoms[k][1][2], geoms[k][2][1], geoms[k][2][2], Texts[k])]
GridResults == {Result(<<Region(<<>>), Region(TableOf(geoms))>>) : geoms \in CellLists}

GridEnv ==
    [sizes |-> {SizeAtLimit},
     readable |-> {TRUE},
     codes |-> {<<"InternalError">>},
     results |-> GridResults,
     network |-> {},
     trace |-> FALSE]

\* several images with the requests counted: a retryable code, a network
\* error or a result at each request
CountingEnv ==
    [sizes |-> {SizeAtLimit, SizeOverLimit},
     readable |-> {TRUE},
     codes |-> { <<"InternalError">> },
     results |-> {GoodResult},
     network |-> {TRUE},
     trace |-> FALSE]

\* the answers possible in this run
Environment ==
    CASE env.kind = "pipeline" -> PipelineEnv
      [] env.kind = "worker" -> WorkerEnv
      [] env.kind = "grid" -> GridEnv
      [] env.kind = "counting" -> CountingEnv

(***************************************************************************)
(* check_image_size.  A file is [ok, size]: ok is FALSE when os.path.getsize*)
(* raises.                                                                 *)
(***************************************************************************)
\* the size test left out
check_image_size_NoLimit(file) == file.ok

check_image_size(file) ==
    IF ~file.ok THEN FALSE               \* except Exception: return False
    ELSE IF file.size > MAX_IMAGE_SIZE THEN FALSE
    ELSE TRUE

(***************************************************************************)
(* process_image: return values and messages.  A return value is the pair  *)
(* (result, error_msg); result is <<>> for None and <<r>> for a parsed      *)
(* response, error_msg is <<>> for None.  raised is TRUE when the call      *)
(* ends with an exception instead (future.result() re-raises it).          *)
(***************************************************************************)
Return(result, error_msg) ==
    [raised |-> FALSE, result |-> result, error_msg |-> error_msg]
Raise(exc, detail) ==
    [raised |-> TRUE, exc |-> exc, detail |-> detail]

\* the parts of a formatted message: literal text, or an error code put in
Lit(text) == <<"lit", text>>
Code(error_code) == <<"code">> \o error_code

SizeMsg == <<Lit("image exceeds 3MB limit")>>
TerminalMsg(error_code) ==
    <<Lit(non_retryable_errors[error_code]), Lit(" | "), Lit(Suggestion(error_code)),
      Lit(" [code: "), Code(error_code), Lit("]")>>
AuthMsg(error_code) ==
    <<Lit("Tencent Cloud auth error: "), Lit("error_msg"), Lit(" [code: "),
      Code(error_code), Lit("]")>>
RetryFailedMsg(error_code) ==
    <<Lit("retry failed: "), Lit("error_msg"), Lit(" [code: "), Code(error_code), Lit("]")>>
NetworkMsg == <<Lit("network error: "), Lit("str(e)")>>
ProcessingMsg(detail) == <<Lit("processing error: ")>> \o detail

\* the outer try/except of process_image: any Exception raised in its body
\* (RuntimeError included) is turned into a returned failure
OuterExcept(exc, detail) == Return(<<>>, ProcessingMsg(detail))

\* one except-branch of the retry loop.  A step is what the worker does next:
\* "return" with a value, or "sleep" for a delay and go round the loop again.
StepReturn(ret) == [do |-> "return", ret |-> ret]
StepSleep(delay) == [do |-> "sleep", delay |-> delay]

\* the delay not doubled
NextDelay_Constant(retry_delay) == retry_delay

NextDelay(retry_delay) == retry_delay * 2

\* the retry test placed before the look-up of the code
OnSDKException_RetryFirst(error_code, attempt, retry_delay) ==
    IF attempt < max_retries - 1
    THEN StepSleep(retry_delay)
    ELSE IF error_code \in DOMAIN non_retryable_errors
    THEN StepReturn(Return(<<>>, TerminalMsg(error_code)))
    ELSE StepReturn(Return(<<>>, RetryFailedMsg(error_code)))

\* except TencentCloudSDKException as err
OnSDKException(error_code, attempt, retry_delay) ==
    IF error_code \in DOMAIN non_retryable_errors
    THEN StepReturn(Return(<<>>, TerminalMsg(error_code)))
    ELSE IF StartsWithAuthFailure(error_code)
    THEN StepReturn(OuterExcept("RuntimeError", AuthMsg(error_code)))
    ELSE IF attempt < max_retries - 1
    THEN StepSleep(retry_delay)
    ELSE StepReturn(Return(<<>>, RetryFailedMsg(error_code)))

\* except Exception as e (inside the loop)
OnException(attempt, retry_delay) ==
    IF attempt < max_retries - 1
    THEN StepSleep(retry_delay)
    ELSE StepReturn(Return(<<>>, NetworkMsg))

\* what the service or the network answers to one request
Responses ==
    [kind : {"ok"}, result : Environment.results]
    \cup [kind : {"sdk"}, error_code : Environment.codes]
    \cup [kind : {"net"}, on : Environment.network]

OnResponse(resp, attempt, retry_delay) ==
    CASE resp.kind = "ok" -> StepReturn(Return(<<resp.result>>, <<>>))
      [] resp.kind = "sdk" -> OnSDKException(resp.error_code, attempt, retry_delay)
      [] resp.kind = "net" -> OnException(attempt, retry_delay)

(***************************************************************************)
(* create_worksheet.  A workbook is [exists, sheets]; wb = None is          *)
(* exists = FALSE.  A sheet is [title, src, cells, merges]: cells is the    *)
(* written values by (row, column), src the image it was made for.          *)
(* A text is the sequence of its characters.                                *)
(***************************************************************************)
None == [exists |-> FALSE, sheets |-> <<>>]
Workbook == [exists |-> TRUE, sheets |-> <<>>]    \* openpyxl.Workbook(); del wb['Sheet']

\* text.replace('\n', '')
StripNewlines(text) == SelectSeq(text, LAMBDA c : c # "\n")

\* wb.create_sheet(title=...): openpyxl numbers a title that is already in use.
\* A title is <<name, n>>: the name followed by n when n > 0.
MaxOf(S) == CHOOSE m \in S : \A n \in S : n <= m
\* the title is the name as given, used or not
SheetTitle_AsGiven(sheets, base_name) == <<base_name, 0>>

SheetTitle(sheets, base_name) ==
    LET used == {sheets[k].title[2] : k \in {j \in 1..Len(sheets) : sheets[j].title[1] = base_name}}
    IN  IF used = {} THEN <<base_name, 0>> ELSE <<base_name, MaxOf(used) + 1>>

row_start(cell) == cell.RowTl + 1
row_end(cell) == cell.RowBr
col_start(cell) == cell.ColTl + 1
col_end(cell) == cell.ColBr

\* "and" written for "or"
IsMerged_Both(cell) == row_end(cell) > row_start(cell) /\ col_end(cell) > col_start(cell)

IsMerged(cell) == row_end(cell) > row_start(cell) \/ col_end(cell) > col_start(cell)

\* the loop over cells: cell_dict[(row_start, col_start)] = text, later cells
\* overwriting earlier ones
RECURSIVE cell_dict(_)
cell_dict(cells) ==
    IF cells = <<>> THEN <<>>
    ELSE LET cell == cells[Len(cells)]
         IN  (<<row_start(cell), col_start(cell)>> :> StripNewlines(cell.Text))
             @@ cell_dict(SubSeq(cells, 1, Len(cells) - 1))

RECURSIVE merged_cells(_)
merged_cells(cells) ==
    IF cells = <<>> THEN <<>>
    ELSE LET cell == cells[Len(cells)]
             rest == merged_cells(SubSeq(cells, 1, Len(cells) - 1))
         IN  IF IsMerged(cell)
             THEN Append(rest, <<row_start(cell), row_end(cell), col_start(cell), col_end(cell)>>)
             ELSE rest

AddSheet(wbk, sheet) == [wbk EXCEPT !.sheets = Append(@, sheet)]

\* returns the workbook as the call leaves it and the pair (success, error)
create_worksheet(wbk, base_name, result) ==
    IF ~result.hasTD \/ Len(result.TableDetections) < 2
    THEN [wb |-> wbk, success |-> FALSE, error |-> <<Lit("no valid table data")>>]
    ELSE LET cells == result.TableDetections[2].Cells
             ws == [title |-> SheetTitle(wbk.sheets, base_name), src |-> <<>>,
                    cells |-> <<>>, merges |-> <<>>]
         IN  IF cells = <<>>
             \* max() of an empty sequence raises, after the sheet was created
             THEN [wb |-> AddSheet(wbk, ws), success |-> FALSE,
                   error |-> <<Lit("error creating worksheet: "), Lit("str(e)")>>]
             ELSE [wb |-> AddSheet(wbk, [ws EXCEPT !.cells = cell_dict(cells),
                                                   !.merges = merged_cells(cells)]),
                   success |-> TRUE, error |-> <<>>]

(***************************************************************************)
(* save_workbook.  A path is <<base_name, batch, ext>>: batch is <<>> for   *)
(* the output path itself and <<n>> for base_name_batch{n}.ext.             *)
(***************************************************************************)
output_path == <<"output", <<>>, ".xlsx">>
temp_path(path, batch_num) == <<path[1], <<batch_num>>, path[3]>>

\* every save goes to the output path itself
SavePath_Canonical(path, batch_num) == path

\* the path wb.save is called with; batch_num is <<>> for None
SavePath(path, batch_num) ==
    IF batch_num # <<>> THEN temp_path(path, batch_num[1]) ELSE path

\* wb.save raises on a workbook without sheets, and whenever the disk says so
CanSave(wbk) == IF wbk.sheets = <<>> THEN {FALSE} ELSE BOOLEAN

save_workbook(wbk, path, batch_num, ok) ==
    [path |-> SavePath(path, batch_num), batch_num |-> batch_num,
     sheets |-> wbk.sheets, ok |-> ok]

(***************************************************************************)
(* The tasks.                                                              *)
(***************************************************************************)
Images == 1..Len(image_files)
img_name(i) == image_files[i]                 \* os.path.basename(img_path)
base_name(i) == image_files[i][1]             \* os.path.splitext(img_name)[0]

NewTask ==
    [st |-> "pending", attempt |-> 0, retry_delay |-> initial_retry_delay, file |-> <<>>,
     calls |-> 0, sleeps |-> <<>>, last |-> <<>>, ret |-> <<>>]

Running == {i \in Images : task[i].st \in {"calling", "sleeping"}}
Pending == {i \in Images : task[i].st = "pending"}
Finished == {i \in Images : task[i].st = "finished"}

\* a future completes: as_completed learns of it once it has been called
Complete(i) ==
    queue' = IF pc = "submitted" THEN queue ELSE Append(queue, i)

\* no task is taken while a worker of the pool is sleeping
FreeWorker_NoSleeper ==
    /\ Cardinality(Running) < max_workers
    /\ \A i \in Images : task[i].st # "sleeping"

\* ThreadPoolExecutor(max_workers=args.max_workers): a worker thread is idle
FreeWorker == Cardinality(Running) < max_workers

\* a worker keeps its own count of the images it has handled in the shared counter
MainUnchanged_WorkerCounts ==
    /\ processed_count' = processed_count + 1
    /\ UNCHANGED <<image_files, max_workers, batch_size, env, pc, pre, drained, wb,
                   success_count, batch_counter, failed_files, saves, fail_report, signals>>

MainUnchanged ==
    UNCHANGED <<image_files, max_workers, batch_size, env, pc, pre, drained, wb,
                processed_count, success_count, batch_counter, failed_files, saves,
                fail_report, signals>>

(***************************************************************************)
(* process_image, one action per blocking step of one call.                *)
(***************************************************************************)
\* a free worker takes the next submitted task: the size check, then reading
\* and encoding the file
Start(i) ==
    /\ i \in Pending
    /\ \A j \in Pending : i <= j
    /\ FreeWorker
    /\ \E file \in Environment.sizes, readable \in Environment.readable :
          LET ret == IF ~check_image_size(file) THEN <<Return(<<>>, SizeMsg)>>
                     ELSE IF ~readable
                     THEN <<OuterExcept("OSError", <<Lit("str(e)")>>)>>
                     ELSE <<>>
          IN  /\ ~check_image_size(file) => readable   \* the file is not opened
              /\ task' = [task EXCEPT ![i] =
                            [@ EXCEPT !.file = IF Environment.trace THEN <<file>> ELSE @,
                                      !.ret = ret,
                                      !.st = IF ret = <<>> THEN "calling" ELSE "finished"]]
              /\ IF ret = <<>> THEN UNCHANGED queue ELSE Complete(i)
    /\ MainUnchanged

\* client.RecognizeTableAccurateOCR(req) and the branch its outcome takes
Call(i) ==
    /\ task[i].st = "calling"
    /\ \E resp \in Responses :
          LET t == task[i]
              step == OnResponse(resp, t.attempt, t.retry_delay)
              traced == IF Environment.trace
                        THEN [t EXCEPT !.calls = @ + 1, !.last = <<resp>>,
                                       !.sleeps = IF step.do = "sleep"
                                                  THEN Append(@, step.delay) ELSE @]
                        ELSE IF env.kind = "counting"
                        THEN [t EXCEPT !.calls = @ + 1]
                        ELSE t
          IN  IF step.do = "return"
              THEN \* the frame of the call is gone: its locals are forgotten
                   /\ task' = [task EXCEPT ![i] =
                                 [traced EXCEPT !.attempt = 0,
                                                !.retry_delay = initial_retry_delay,
                                                !.ret = <<step.ret>>, !.st = "finished"]]
                   /\ Complete(i)
              ELSE /\ task' = [task EXCEPT ![i] =
                                 [traced EXCEPT !.retry_delay = NextDelay(step.delay),
                                                !.st = "sleeping"]]
                   /\ UNCHANGED queue
    /\ MainUnchanged

\* time.sleep returns; continue with the next attempt
Wake(i) ==
    /\ task[i].st = "sleeping"
    /\ task' = [task EXCEPT ![i] = [@ EXCEPT !.attempt = @ + 1, !.st = "calling"]]
    /\ UNCHANGED queue
    /\ MainUnchanged

(***************************************************************************)
(* main.                                                                   *)
(***************************************************************************)
SUPPORTED_EXT == {".png", ".jpg", ".jpeg", ".bmp", ".gif", ".tiff"}

\* the order of the path strings, for the names the model uses
StrRank == ("a" :> 1 @@ "b" :> 2 @@ "c" :> 3 @@ ".jpg" :> 1 @@ ".png" :> 2 @@ ".txt" :> 3)
PathLess(f, g) ==
    \/ StrRank[f[1]] < StrRank[g[1]]
    \/ f[1] = g[1] /\ StrRank[f[2]] < StrRank[g[2]]

\* image_files.sort()
Sorted(files) ==
    CHOOSE seq \in [1..Cardinality(files) -> files] :
        /\ {seq[k] : k \in DOMAIN seq} = files
        /\ \A j, k \in DOMAIN seq : j < k => PathLess(seq[j], seq[k])

WorkerUnchanged == UNCHANGED task

\* list the directory, keep the images, sort them, submit one task per image
Scan ==
    /\ pc = "start"
    /\ LET found == {f \in env.listing : f[2] \in SUPPORTED_EXT}
       IN  /\ image_files' = Sorted(found)
           /\ task' = [i \in 1..Cardinality(found) |-> NewTask]
           /\ IF found = {}
              THEN /\ pc' = "done"
                   /\ signals' = signals \cup {"warning: no supported images"}
              ELSE /\ pc' = "submitted"
                   /\ UNCHANGED signals
    /\ UNCHANGED <<max_workers, batch_size, env, pre, queue, drained, wb, processed_count,
                   success_count, batch_counter, failed_files, saves, fail_report>>

\* concurrent.futures.as_completed(future_to_image) is entered
AsCompleted ==
    /\ pc = "submitted"
    /\ pc' = "drain"
    /\ pre' = Finished
    /\ WorkerUnchanged
    /\ UNCHANGED <<image_files, max_workers, batch_size, env, queue, drained, wb,
                   processed_count, success_count, batch_counter, failed_files, saves,
                   fail_report, signals>>

\* the futures as_completed may yield next: those finished before it was
\* entered in any order, then the others in the order they finished
Yieldable ==
    IF pre \ drained # {} THEN pre \ drained
    ELSE IF queue # <<>> THEN {Head(queue)} ELSE {}

\* ">" written for ">="
CheckpointDue_Strict(counter, size, wbk) == counter > size /\ wbk.exists

\* if batch_counter >= args.batch_size and wb is not None
CheckpointDue(counter, size, wbk) == counter >= size /\ wbk.exists

\* the counter is cleared only when the checkpoint was written
AfterCheckpoint_KeepOnFailure(counter, ok) == IF ok THEN 0 ELSE counter

\* save_workbook(...); batch_counter = 0: what save_workbook returns is not used
AfterCheckpoint(counter, ok) == 0

\* the last sheet of the workbook is the one made for img, when one was made
TagSheet(before, after, img) ==
    IF Len(after.sheets) > Len(before.sheets)
    THEN [after EXCEPT !.sheets[Len(after.sheets)].src = img]
    ELSE after

\* the record is appended once by the branch and once more by a handler
RecordFailure_Twice(failed, name, reason) ==
    Append(Append(failed, <<name, reason>>), <<name, reason>>)

\* the append left out
RecordFailure_Dropped(failed, name, reason) == failed

\* failed_files.append((img_name, reason))
RecordFailure(failed, name, reason) == Append(failed, <<name, reason>>)

\* one iteration of the for loop of main
Drain(i) ==
    /\ pc = "drain"
    /\ i \in Yieldable
    /\ drained' = drained \cup {i}
    /\ queue' = IF i \in pre THEN queue ELSE Tail(queue)
    /\ processed_count' = processed_count + 1
    /\ LET ret == task[i].ret[1]
           last == drained' = Images
       IN  IF ret.raised /\ ret.exc = "RuntimeError"
           THEN \* except RuntimeError: log critical twice and return
                /\ signals' = signals \cup {"critical: fatal error", "critical: terminated"}
                /\ pc' = "aborted"
                /\ UNCHANGED <<wb, success_count, batch_counter, failed_files, saves>>
           ELSE IF ret.raised
           THEN \* except Exception
                /\ failed_files' = RecordFailure(failed_files, img_name(i), ret.detail)
                /\ pc' = IF last THEN "final" ELSE "drain"
                /\ UNCHANGED <<wb, success_count, batch_counter, saves, signals>>
           ELSE IF ret.result # <<>>
           THEN LET wb1 == IF ~wb.exists THEN Workbook ELSE wb
                    cw == create_worksheet(wb1, base_name(i), ret.result[1])
                    wb2 == TagSheet(wb1, cw.wb, img_name(i))
                IN  /\ wb' = wb2
                    /\ pc' = IF last THEN "final" ELSE "drain"
                    /\ UNCHANGED signals
                    /\ IF cw.success
                       THEN /\ success_count' = success_count + 1
                            /\ IF ~CheckpointDue(batch_counter + 1, batch_size, wb2)
                               THEN /\ batch_counter' = batch_counter + 1
                                    /\ UNCHANGED <<failed_files, saves>>
                               ELSE IF batch_size = 0
                               THEN \* success_count // 0: ZeroDivisionError, except Exception
                                    /\ batch_counter' = batch_counter + 1
                                    /\ failed_files' = RecordFailure(failed_files, img_name(i),
                                          <<Lit("integer division or modulo by zero")>>)
                                    /\ UNCHANGED saves
                               ELSE /\ \E ok \in CanSave(wb2) :
                                          /\ saves' = Append(saves,
                                                save_workbook(wb2, output_path,
                                                    <<success_count' \div batch_size>>, ok))
                                          /\ batch_counter' =
                                                AfterCheckpoint(batch_counter + 1, ok)
                                    /\ UNCHANGED failed_files
                       ELSE /\ failed_files' = RecordFailure(failed_files, img_name(i), cw.error)
                            /\ UNCHANGED <<success_count, batch_counter, saves>>
           ELSE /\ failed_files' = RecordFailure(failed_files, img_name(i), ret.error_msg)
                /\ pc' = IF last THEN "final" ELSE "drain"
                /\ UNCHANGED <<wb, success_count, batch_counter, saves, signals>>
    /\ WorkerUnchanged
    /\ UNCHANGED <<image_files, max_workers, batch_size, env, pre, fail_report>>

\* if wb is not None: save_workbook(wb, output_path)
FinalSave ==
    /\ pc = "final"
    /\ pc' = "stats"
    /\ IF wb.exists
       THEN \E ok \in CanSave(wb) :
               saves' = Append(saves, save_workbook(wb, output_path, <<>>, ok))
       ELSE UNCHANGED saves
    /\ WorkerUnchanged
    /\ UNCHANGED <<image_files, max_workers, batch_size, env, pre, queue, drained, wb,
                   processed_count, success_count, batch_counter, failed_files,
                   fail_report, signals>>

\* the statistics, the failure report and the closing message
Report ==
    /\ pc = "stats"
    /\ pc' = "done"
    /\ fail_report' =
          IF failed_files # <<>>
          THEN <<[k \in 1..Len(failed_files) |->
                     <<k, failed_files[k][1], failed_files[k][2]>>]>>
          ELSE fail_report
    /\ signals' = signals \cup {"info: statistics"}
          \cup (IF success_count > 0 THEN {"info: excel file generated"}
                ELSE {"warning: no image recognised, no excel file generated"})
    /\ WorkerUnchanged
    /\ UNCHANGED <<image_files, max_workers, batch_size, env, pre, queue, drained, wb,
                   processed_count, success_count, batch_counter, failed_files, saves>>

InitMain ==
    /\ image_files = <<>>
    /\ task = <<>>
    /\ pc = "start"
    /\ pre = {}
    /\ queue = <<>>
    /\ drained = {}
    /\ wb = None
    /\ processed_count = 0
    /\ success_count = 0
    /\ batch_counter = 0
    /\ failed_files = <<>>
    /\ saves = <<>>
    /\ fail_report = <<>>
    /\ signals = {}

Init ==
    /\ max_workers \in 1..MaxWorkers
    /\ batch_size \in 0..MaxBatch
    /\ \E listing \in Listings : env = [kind |-> "pipeline", listing |-> listing]
    /\ InitMain

InitWorker ==
    /\ max_workers \in 1..MaxWorkers
    /\ batch_size \in 0..MaxBatch
    /\ env = [kind |-> "worker", listing |-> OneImage]
    /\ InitMain

InitGrid ==
    /\ max_workers = 1
    /\ batch_size = 1
    /\ env = [kind |-> "grid", listing |-> OneImage]
    /\ InitMain

Next ==
    \/ Scan
    \/ \E i \in Images : Start(i)
    \/ \E i \in Images : Call(i)
    \/ \E i \in Images : Wake(i)
    \/ AsCompleted
    \/ \E i \in Images : Drain(i)
    \/ FinalSave
    \/ Report

InitCounting ==
    /\ max_workers \in 1..MaxWorkers
    /\ batch_size \in {0, MaxBatch}
    /\ \E listing \in Listings : env = [kind |-> "counting", listing |-> listing]
    /\ InitMain

Spec == Init /\ [][Next]_vars
SpecWorker == InitWorker /\ [][Next]_vars
SpecGrid == InitGrid /\ [][Next]_vars
\* every thread that can take a step is scheduled, and every call returns
SpecFair == InitCounting /\ [][Next]_vars /\ WF_vars(Next)

(***************************************************************************)
(* Properties.                                                             *)
(***************************************************************************)
SheetsOf(i) == {k \in 1..Len(wb.sheets) : wb.sheets[k].src = img_name(i)}
FailuresOf(i) == {k \in 1..Len(failed_files) : failed_files[k][1] = img_name(i)}
Ended == pc = "done" /\ image_files # <<>>
FinalSaves == {k \in 1..Len(saves) : saves[k].batch_num = <<>>}
Checkpoints == SelectSeq(saves, LAMBDA s : s.batch_num # <<>>)

\* the message of a returned failure names an AuthFailure code
NamesAuthCode(msg) ==
    \E k \in 1..Len(msg) : msg[k][1] = "code" /\ msg[k][2] = "AuthFailure"
GotAuthCode(i) ==
    /\ task[i].st = "finished"
    /\ IF task[i].ret[1].raised THEN NamesAuthCode(task[i].ret[1].detail)
       ELSE NamesAuthCode(task[i].ret[1].error_msg)

\* C1: when a run that was not aborted has ended, every image has exactly one
\* disposition: one sheet in the workbook or one failure record, never both
\* and never neither (here for a positive --batch_size).
C1_OneDisposition ==
    (Ended /\ batch_size >= 1) =>
        \A i \in Images : Cardinality(SheetsOf(i)) + Cardinality(FailuresOf(i)) = 1

\* C2: once the main thread has consumed a task that received an AuthFailure
\* code, the run is aborted: the critical line is logged, the task has no
\* failure record, and nothing is saved to the output path.
C2_AuthAborts ==
    \A i \in Images :
        (i \in drained /\ GotAuthCode(i)) =>
            /\ pc = "aborted"
            /\ "critical: terminated" \in signals
            /\ FailuresOf(i) = {}
            /\ FinalSaves = {}

CredentialCodes ==
    { <<"AuthFailure", "SecretIdNotFound">>, <<"AuthFailure", "SignatureFailure">>,
      <<"AuthFailure", "TokenFailure">> }
\* C3: a credential, signature or token code makes process_image end with the
\* run-level fatal condition (an exception), not with a returned failure.
C3_CredentialCodeIsFatal ==
    \A i \in Images :
        (task[i].last # <<>> /\ task[i].last[1].kind = "sdk"
            /\ task[i].last[1].error_code \in CredentialCodes)
        => (task[i].st = "finished" /\ task[i].ret[1].raised)

\* C8: after the final step the output path has been saved to exactly when at
\* least one image succeeded; with no success the warning is logged instead.
C8_FinalSaveIffSuccess ==
    pc \in {"stats", "done"} /\ image_files # <<>> =>
        /\ (FinalSaves # {}) <=> (success_count >= 1)
        /\ (pc = "done" /\ success_count = 0) =>
              "warning: no image recognised, no excel file generated" \in signals

\* the last answer a task got
LastIs(i, kind) == task[i].last # <<>> /\ task[i].last[1].kind = kind
LastRetryable(i) ==
    \/ LastIs(i, "net")
    \/ /\ LastIs(i, "sdk")
       /\ task[i].last[1].error_code \notin DOMAIN non_retryable_errors
       /\ task[i].last[1].error_code[1] # "AuthFailure"

\* C4: one process_image call makes at most 3 requests, sleeps 2 before the
\* second and 4 before the third and never after the last one, returns the
\* result at the first request that succeeds, and returns a failure for
\* retryable and network errors only after the third failed request.
C4_RetryPolicy ==
    \A i \in Images :
        LET t == task[i]
        IN  /\ t.calls <= 3
            /\ Len(t.sleeps) <= 2
            /\ \A k \in 1..Len(t.sleeps) : t.sleeps[k] = 2 * k
            /\ t.st \in {"calling", "sleeping"} => Len(t.sleeps) = t.calls
            /\ (t.st = "finished" /\ t.calls > 0) => Len(t.sleeps) = t.calls - 1
            /\ LastIs(i, "ok") =>
                  /\ t.st = "finished"
                  /\ t.ret[1] = [raised |-> FALSE, result |-> <<t.last[1].result>>,
                                 error_msg |-> <<>>]
            /\ (LastRetryable(i) /\ t.calls < 3) => t.st \in {"calling", "sleeping"}
            /\ (LastRetryable(i) /\ t.calls = 3) =>
                  /\ t.st = "finished"
                  /\ ~t.ret[1].raised
                  /\ t.ret[1].result = <<>>
                  /\ t.ret[1].error_msg[1] \in
                        {<<"lit", "retry failed: ">>, <<"lit", "network error: ">>}

C4_Witness ==
    \E i \in Images :
        /\ task[i].st = "finished"
        /\ task[i].calls = 3
        /\ task[i].sleeps = <<2, 4>>
        /\ LastIs(i, "net")
        /\ task[i].ret[1].error_msg[1] = <<"lit", "network error: ">>

TerminalCodes == {c \in DOMAIN non_retryable_errors : c[1] # "AuthFailure"}
\* C5: a code of the terminal set ends the call at once: the task is finished
\* with no request and no sleep after the one that got the code (one request
\* and no sleep at all when it is the first answer), and the returned reason
\* holds the friendly text of the code and the code.
C5_TerminalNoRetry ==
    \A i \in Images :
        (LastIs(i, "sdk") /\ task[i].last[1].error_code \in TerminalCodes) =>
            LET t == task[i]
                c == t.last[1].error_code
            IN  /\ t.st = "finished"
                /\ Len(t.sleeps) = t.calls - 1
                /\ ~t.ret[1].raised
                /\ t.ret[1].result = <<>>
                /\ \E k \in 1..Len(t.ret[1].error_msg) :
                      t.ret[1].error_msg[k] = <<"lit", non_retryable_errors[c]>>
                /\ \E k \in 1..Len(t.ret[1].error_msg) :
                      t.ret[1].error_msg[k] = <<"code">> \o c

C5_Witness ==
    \E i \in Images :
        /\ LastIs(i, "sdk")
        /\ task[i].last[1].error_code = <<"FailedOperation", "OcrFailed", "NoTable">>
        /\ task[i].st = "finished"
        /\ task[i].calls = 1
        /\ task[i].sleeps = <<>>

\* C6: an image larger than 3 MiB is rejected with the size reason and no
\* request is ever made for it.
C6_OversizeNoCall ==
    \A i \in Images :
        (task[i].file # <<>> /\ task[i].file[1].ok
            /\ task[i].file[1].size > 3 * 1024 * 1024) =>
                /\ task[i].st = "finished"
                /\ task[i].calls = 0
                /\ task[i].ret[1] = [raised |-> FALSE, result |-> <<>>,
                                     error_msg |-> <<<<"lit", "image exceeds 3MB limit">>>>]

C6_Witness ==
    \E i \in Images :
        /\ task[i].file # <<>> /\ task[i].file[1].ok
        /\ task[i].file[1].size > 3 * 1024 * 1024
        /\ i \in drained
        /\ FailuresOf(i) # {}

\* the sheets of a saved workbook that belong to images without a failure record
SuccessSheets(sheets) ==
    {j \in 1..Len(sheets) :
        \A k \in 1..Len(failed_files) : failed_files[k][1] # sheets[j].src}

\* C7: with --batch_size N >= 1 the k-th checkpoint is saved at the (k*N)-th
\* success under the number k and the batch counter starts again from 0, so
\* there are always success_count \div N checkpoints, numbered 1, 2, ..., and
\* the save to the output path comes after all of them.
C7_Checkpoints ==
    batch_size >= 1 =>
        /\ batch_counter = success_count % batch_size
        /\ Len(Checkpoints) = success_count \div batch_size
        /\ \A k \in 1..Len(Checkpoints) :
              /\ Checkpoints[k].batch_num = <<k>>
              /\ Cardinality(SuccessSheets(Checkpoints[k].sheets)) = k * batch_size
        /\ \A k \in FinalSaves : k = Len(saves) /\ pc \in {"stats", "done"}

C7_Witness ==
    /\ Ended
    /\ batch_size = 2
    /\ success_count = 2
    /\ failed_files = <<>>
    /\ Len(saves) = 2
    /\ saves[1].batch_num = <<1>> /\ Len(saves[1].sheets) = 2
    /\ saves[2].batch_num = <<>> /\ Len(saves[2].sheets) = 2

Spanning(cell) == cell.RowBr - cell.RowTl > 1 \/ cell.ColBr - cell.ColTl > 1
RangeOf(cell) == <<cell.RowTl + 1, cell.RowBr, cell.ColTl + 1, cell.ColBr>>
CornerOf(cell) == <<cell.RowTl + 1, cell.ColTl + 1>>
\* C9: the sheet made from a main table has text exactly at the coordinates
\* (RowTl+1, ColTl+1) of its cells (the text of the last cell with that corner,
\* line breaks removed) and nowhere else, and its merges are exactly the ranges
\* (RowTl+1, RowBr, ColTl+1, ColBr) of the cells that span more than one row or
\* more than one column.
C9_GridCells ==
    \A i \in Images : \A s \in SheetsOf(i) :
        LET cells == task[i].ret[1].result[1].TableDetections[2].Cells
            sheet == wb.sheets[s]
            idx == 1..Len(cells)
        IN  /\ DOMAIN sheet.cells = {CornerOf(cells[j]) : j \in idx}
            /\ \A j \in idx :
                  (\A k \in idx : k > j => CornerOf(cells[k]) # CornerOf(cells[j])) =>
                      sheet.cells[CornerOf(cells[j])] =
                          SelectSeq(cells[j].Text, LAMBDA c : c # "\n")
            /\ \A j \in idx :
                  (\E m \in 1..Len(sheet.merges) : sheet.merges[m] = RangeOf(cells[j]))
                      <=> Spanning(cells[j])
            /\ Len(sheet.merges) = Cardinality({j \in idx : Spanning(cells[j])})

C9_Witness ==
    \E i \in Images : \E s \in SheetsOf(i) :
        LET cells == task[i].ret[1].result[1].TableDetections[2].Cells
        IN  /\ Len(cells) = 2
            /\ <<cells[1].RowTl, cells[1].RowBr, cells[1].ColTl, cells[1].ColBr>> = <<0, 2, 0, 1>>
            /\ <<cells[2].RowTl, cells[2].RowBr, cells[2].ColTl, cells[2].ColBr>> = <<0, 1, 1, 2>>
            /\ wb.sheets[s].merges = << <<1, 2, 1, 1>> >>
            /\ DOMAIN wb.sheets[s].cells = {<<1, 1>>, <<1, 2>>}
            /\ wb.sheets[s].cells[<<1, 1>>] = <<"a", "b">>

Unusable(result) ==
    Len(result.TableDetections) < 2 \/ result.TableDetections[2].Cells = <<>>
ImageFailed(i) ==
    /\ task[i].st = "finished"
    /\ ~task[i].ret[1].raised
    /\ IF task[i].ret[1].result = <<>>
       THEN ~NamesAuthCode(task[i].ret[1].error_msg)
       ELSE Unusable(task[i].ret[1].result[1])
ImageUsable(i) ==
    /\ task[i].st = "finished"
    /\ ~task[i].ret[1].raised
    /\ task[i].ret[1].result # <<>>
    /\ ~Unusable(task[i].ret[1].result[1])
C10_Step ==
    \A i \in Images :
        (i \notin drained /\ i \in drained' /\ ImageFailed(i)) =>
            /\ pc' \in {"drain", "final"}
            /\ Len(failed_files') = Len(failed_files) + 1
            /\ failed_files'[Len(failed_files')][1] = img_name(i)
            /\ task[i].ret[1].result = <<>> =>
                  failed_files'[Len(failed_files')][2] = task[i].ret[1].error_msg
            /\ success_count' = success_count
            /\ signals' = signals
C10_State ==
    /\ (pc \in {"final", "stats", "done"} /\ image_files # <<>>) =>
          /\ drained = Images
          /\ processed_count = Len(image_files)
    /\ (pc \in {"stats", "done"} /\ image_files # <<>>) =>
          \A i \in Images :
              ImageUsable(i) =>
                  /\ Cardinality(SheetsOf(i)) = 1
                  /\ \E k \in FinalSaves : \E j \in 1..Len(saves[k].sheets) :
                        saves[k].sheets[j].src = img_name(i)
    /\ Ended =>
          \A i \in Images :
              ImageFailed(i) =>
                  /\ Cardinality(FailuresOf(i)) = 1
                  /\ fail_report # <<>>
                  /\ \E k \in 1..Len(fail_report[1]) : fail_report[1][k][2] = img_name(i)
\* C10: a failure of one image (size, terminal code, retries or network
\* exhausted, unusable grid, unexpected error) does not end the run: draining
\* it adds one failure record for the image, counts no success, logs nothing
\* critical and leaves main in the loop or at the final save; the final save is
\* reached only with every completion drained, every failed image is in the
\* failure report, and every image with a usable result has its sheet in the
\* workbook that the final save is called with.
C10_FailuresStayLocal == []C10_State /\ [][C10_Step]_vars

C10_Witness ==
    /\ Ended
    /\ Len(image_files) = 2
    /\ Len(wb.sheets) = 1
    /\ \E k \in FinalSaves : saves[k].ok /\ Len(saves[k].sheets) = 1
    /\ fail_report # <<>>
    /\ Len(fail_report[1]) = 1
    /\ \E k \in 1..Len(fail_report[1][1][3]) :
          fail_report[1][1][3][k] = <<"lit", "no table detected">>

\* C11: a checkpoint save goes to the path derived from the output path and
\* the checkpoint number, never to the output path; the output path is given
\* to wb.save only by the final save, so while main has not left the loop no
\* save to the output path has been made.
C11_CheckpointPath ==
    /\ \A k \in 1..Len(saves) :
          /\ saves[k].batch_num # <<>> =>
                /\ saves[k].path = <<"output", saves[k].batch_num, ".xlsx">>
                /\ saves[k].path # output_path
          /\ saves[k].path = output_path <=> saves[k].batch_num = <<>>
    /\ pc \in {"start", "submitted", "drain", "final"} =>
          \A k \in 1..Len(saves) : saves[k].path # output_path
    /\ Cardinality({k \in 1..Len(saves) : saves[k].path = output_path}) <= 1

C11_Witness ==
    /\ pc = "drain"
    /\ \E k \in 1..Len(saves) : saves[k].ok /\ saves[k].path = <<"output", <<1>>, ".xlsx">>

IsPrefix(s, t) == Len(s) <= Len(t) /\ \A k \in 1..Len(s) : s[k] = t[k]
FailedCheckpoint(s) == s.batch_num # <<>> /\ ~s.ok
C12_Step ==
    /\ IsPrefix(wb.sheets, wb'.sheets)
    /\ (Len(saves') = Len(saves) + 1 /\ FailedCheckpoint(saves'[Len(saves')])) =>
          /\ wb'.sheets = saves'[Len(saves')].sheets
          /\ batch_counter' = 0
          /\ success_count' = success_count + 1
          /\ failed_files' = failed_files
          /\ signals' = signals
          /\ pc' \in {"drain", "final"}
    /\ (pc = "final" /\ pc' # "final") =>
          /\ pc' = "stats"
          /\ wb.exists =>
                /\ Len(saves') = Len(saves) + 1
                /\ saves'[Len(saves')].batch_num = <<>>
                /\ saves'[Len(saves')].sheets = wb.sheets
    /\ (pc = "stats" /\ pc' # "stats") =>
          /\ pc' = "done"
          /\ "info: statistics" \in signals'
C12_State ==
    /\ (pc \in {"stats", "done"} /\ wb.exists) =>
          \E k \in FinalSaves : saves[k].sheets = wb.sheets
    /\ Ended => "info: statistics" \in signals
\* C12: a checkpoint whose write failed does not end the run and loses
\* nothing: in the step that logs it the workbook holds exactly the sheets the
\* save was called with, batch_counter is 0, the image is still counted as a
\* success and main stays in the loop or goes to the final save; sheets are
\* never removed from the workbook; the final save is called with all of them;
\* and after a final save, failed or not, the statistics are emitted.
C12_SaveFailureTolerated == []C12_State /\ [][C12_Step]_vars

C12_Witness ==
    /\ Ended
    /\ Len(wb.sheets) = 2
    /\ \E k \in 1..Len(saves) : FailedCheckpoint(saves[k]) /\ Len(saves[k].sheets) = 1
    /\ \E k \in FinalSaves : ~saves[k].ok /\ Len(saves[k].sheets) = 2
    /\ "info: statistics" \in signals

SharedState == <<wb, failed_files, processed_count, success_count, batch_counter>>
WorkerStep == pc # "start" /\ task' # task
DrainStep == pc = "drain" /\ \E i \in Images \ drained : drained' = drained \cup {i}
\* C13: the workbook, the list of failure records and the three counters are
\* changed only by the loop of main over as_completed: a step of a worker in
\* process_image leaves all of them as they are, and every step that changes
\* one of them is one iteration of that loop, in which no worker moves.
C13_SingleWriter ==
    [][/\ WorkerStep => SharedState' = SharedState
       /\ SharedState' # SharedState => (DrainStep /\ task' = task)]_vars

C13_Witness ==
    /\ pc = "drain"
    /\ processed_count = 1
    /\ wb.exists
    /\ \E i \in Images : task[i].st = "sleeping"

ImageOrParameterCodes ==
    { <<"FailedOperation", "OcrFailed", "InvalidImage">>,
      <<"FailedOperation", "OcrFailed", "TooLarge">>,
      <<"FailedOperation", "OcrFailed", "UnsupportedFormat">>,
      <<"FailedOperation", "OcrFailed", "LowQuality">>,
      <<"FailedOperation", "OcrFailed", "NoText">>,
      <<"FailedOperation", "OcrFailed", "NoTable">>,
      <<"FailedOperation", "OcrFailed", "ComplexTable">>,
      <<"FailedOperation", "ImageSizeTooSmall">>,
      <<"FailedOperation", "ImageNoText">>,
      <<"InvalidParameter">>, <<"InvalidParameterValue">>, <<"MissingParameter">> }
AccountCodes ==
    { <<"FailedOperation", "ArrearsError">>, <<"FailedOperation", "UnOpenError">>,
      <<"LimitExceeded">> }
\* the answer to the last request was a service error with a non-auth code
LastNonAuth(i) == LastIs(i, "sdk") /\ task[i].last[1].error_code[1] # "AuthFailure"
\* the call ended on that answer although attempts were left
EndedEarly(i) == task[i].st = "finished" /\ task[i].calls < max_retries
\* the call goes on to another request, after a backoff sleep
Retried(i) ==
    /\ task[i].st \in {"sleeping", "calling"}
    /\ Len(task[i].sleeps) = task[i].calls
\* C14 as stated: a non-auth service code ends the call without a retry only
\* when it is an image, quality, text, table or parameter code; with any other
\* non-auth code and attempts left the call is retried after a backoff sleep.
C14_TerminalOnlyImageOrParameter ==
    \A i \in Images :
        LastNonAuth(i) =>
            /\ EndedEarly(i) => task[i].last[1].error_code \in ImageOrParameterCodes
            /\ (task[i].last[1].error_code \notin ImageOrParameterCodes
                  /\ task[i].calls < max_retries) => Retried(i)

\* C14: a non-auth service code ends the call without a retry exactly when it
\* is an image, quality, text, table or parameter code or one of the account
\* codes (arrears, service not opened, quota exceeded); with any other non-auth
\* code, rate limiting included, and attempts left the call is retried after a
\* backoff sleep.
C14_TerminalCodes ==
    \A i \in Images :
        LastNonAuth(i) =>
            LET terminal == task[i].last[1].error_code
                                \in ImageOrParameterCodes \cup AccountCodes
            IN  /\ terminal => task[i].st = "finished"
                /\ EndedEarly(i) => terminal
                /\ (~terminal /\ task[i].calls < max_retries) => Retried(i)

C14_Witness ==
    \E i \in Images :
        /\ LastNonAuth(i)
        /\ task[i].last[1].error_code = <<"RequestLimitExceeded">>
        /\ task[i].calls = 1
        /\ task[i].st = "sleeping"
        /\ task[i].sleeps = <<initial_retry_delay>>

IndexOf(img) == CHOOSE i \in Images : image_files[i] = img
\* the sheets of the recognised images stand in the order of their images
InImageOrder(sheets) ==
    \A j, k \in SuccessSheets(sheets) :
        j < k => IndexOf(sheets[j].src) < IndexOf(sheets[k].src)
\* C16: the workbook is a function of the sorted images and of what each
\* recognition returned, whatever the interleaving.  One worker draining one
\* completion at a time appends the sheets in the order of the sorted list, so
\* that is the only workbook the function can give: in the workbook and in
\* every checkpoint the sheets of the recognised images stand in the order of
\* their images.
C16_Deterministic ==
    /\ InImageOrder(wb.sheets)
    /\ \A k \in 1..Len(saves) : InImageOrder(saves[k].sheets)

Busy == {j \in Images : task[j].st \in {"calling", "sleeping"}}
\* C17: a worker sleeping in its backoff holds its own slot and nothing else.
\* In every state with a sleeping worker: a pending image is started as soon
\* as the pool has an idle worker, every other worker in a request can get its
\* answer and every other sleeper can wake, the sleeper itself can wake, and
\* main can enter as_completed and can take a completion that is ready.
C17_SleepBlocksOwnSlot ==
    \A i \in Images :
        task[i].st = "sleeping" =>
            /\ ENABLED Wake(i)
            /\ \A j \in Images \ {i} :
                  /\ task[j].st = "calling" => ENABLED Call(j)
                  /\ task[j].st = "sleeping" => ENABLED Wake(j)
                  /\ (task[j].st = "pending" /\ Cardinality(Busy) < max_workers) =>
                        \E k \in Images \ {i} : ENABLED Start(k)
            /\ pc = "submitted" => ENABLED AsCompleted
            /\ (pc = "drain" /\ Finished \ drained # {}) =>
                  \E k \in Finished \ drained : ENABLED Drain(k)

C17_Witness ==
    /\ max_workers = 2
    /\ Len(image_files) = 2
    /\ pc = "drain"
    /\ task[1].st = "sleeping"
    /\ task[2].st = "finished"
    /\ drained = {2}
    /\ Len(wb.sheets) = 1

C18_Step ==
    (batch_size >= 1 /\ processed_count' # processed_count) =>
        /\ processed_count' = processed_count + 1
        /\ \/ /\ success_count' = success_count + 1
              /\ failed_files' = failed_files
           \/ /\ success_count' = success_count
              /\ Len(failed_files') = Len(failed_files) + 1
C18_State ==
    batch_size >= 1 =>
        /\ success_count + Len(failed_files) = processed_count
        /\ processed_count = Cardinality(drained)
        /\ (pc \in {"final", "stats", "done"} /\ image_files # <<>>) =>
              success_count + Len(failed_files) = Len(image_files)
\* C18: with --batch_size >= 1 every iteration of the loop adds one to
\* processed_count and either one to success_count or one record to
\* failed_files, never both and never neither, so success_count +
\* len(failed_files) = processed_count throughout, and the sum is the number of
\* images found when the statistics are emitted.
C18_CountsAddUp == []C18_State /\ [][C18_Step]_vars

C18_Witness ==
    /\ Ended
    /\ batch_size >= 1
    /\ "info: statistics" \in signals
    /\ success_count = 1
    /\ Len(failed_files) = 1
    /\ Len(image_files) = 2

RECURSIVE CallsUpTo(_)
CallsUpTo(n) == IF n = 0 THEN 0 ELSE task[n].calls + CallsUpTo(n - 1)
\* the requests made so far, over all images
TotalCalls == CallsUpTo(Len(task))
Terminated == pc \in {"done", "aborted"}
C19_Step ==
    /\ \A i \in Images :
          (pc # "start" /\ task[i].st = "finished") => task'[i] = task[i]
    /\ drained' # drained =>
          \E i \in Finished \ drained :
              /\ drained' = drained \cup {i}
              /\ processed_count' = processed_count + 1
C19_State ==
    /\ TotalCalls <= 3 * Len(image_files)
    /\ processed_count = Cardinality(drained)
    /\ drained \subseteq Finished
    /\ (Terminated /\ pc = "done") => (Finished = Images /\ drained = Images)
\* C19: when every thread that can move does move and every call returns, the
\* run ends (statistics emitted, or the abort return); a finished task does not
\* run again and each completion is drained once, all of them by the end; and
\* at most 3 requests per image are made in total.
C19_Terminates == <>Terminated /\ []C19_State /\ [][C19_Step]_vars

C19_Witness ==
    /\ Ended
    /\ Len(image_files) = 2
    /\ TotalCalls = 6
    /\ Len(failed_files) = 2

\* process_image returned the reason "image exceeds 3MB limit" for image i
SizeRejected(i) ==
    /\ task[i].st = "finished"
    /\ task[i].ret[1] = Return(<<>>, SizeMsg)
\* C20: process_image returns the size reason only for a file whose size is
\* known and greater than 3 * 1024 * 1024 bytes: not for a file of exactly that
\* size, and not for a file whose size could not be read.
C20_SizeReasonOnlyWhenOversize ==
    \A i \in Images :
        task[i].file # <<>> =>
            /\ SizeRejected(i) =>
                  (task[i].file[1].ok /\ task[i].file[1].size > 3 * 1024 * 1024)
            /\ (task[i].file[1].ok /\ task[i].file[1].size = 3 * 1024 * 1024) =>
                  ~SizeRejected(i)
            /\ ~task[i].file[1].ok => ~SizeRejected(i)

====
